---- MODULE Spec2Model ----
(***************************************************************************)
(* A model of scripts/cleanup.py: the column normalisers clean_amount and  *)
(* clean_category, and the table-wide pass of load_and_clean (sort,        *)
(* interpolation, running balance, anomaly flags) with monthly_summary.    *)
(*                                                                         *)
(* Text is a sequence of one-character strings.  Amounts of the table      *)
(* pass are exact numbers of hundredths (the code rounds to 2 decimals);   *)
(* all arithmetic is exact.                                                *)
(***************************************************************************)
EXTENDS Integers, Sequences, FiniteSets, TLC

VARIABLES
    cat_in,     \* clean_category: the argument
    cat_out,    \* clean_category: the returned label
    cat_ret,    \* clean_category: which return statement produced cat_out
    amt_in,     \* clean_amount: the raw argument
    amt_out,    \* clean_amount: the value returned for amt_in
    amt_again,  \* clean_amount applied to amt_out
    amt_pc,     \* position of the clean_amount run
    pc,         \* load_and_clean / monthly_summary: next statement
    df,         \* the data frame, a sequence of rows
    summary     \* the monthly summary, a sequence of rows

vars == <<cat_in, cat_out, cat_ret, amt_in, amt_out, amt_again, amt_pc,
          pc, df, summary>>

----------------------------------------------------------------------------
(* Text primitives: str.lower, str.strip, str.title, string comparison.    *)

UpperLetters ==
    <<"A","B","C","D","E","F","G","H","I","J","K","L","M",
      "N","O","P","Q","R","S","T","U","V","W","X","Y","Z">>

LowerLetters ==
    <<"a","b","c","d","e","f","g","h","i","j","k","l","m",
      "n","o","p","q","r","s","t","u","v","w","x","y","z">>

\* the characters of the model in ascending code point order
CodeOrder ==
    <<"\t"," ","$","+",",","-",".",
      "0","1","2","3","4","5","6","7","8","9","@">>
    \o UpperLetters \o LowerLetters

Whitespace == {" ", "\t"}

Ord(ch) == CHOOSE i \in 1..Len(CodeOrder) : CodeOrder[i] = ch

IsUpper(ch) == \E i \in 1..26 : UpperLetters[i] = ch

IsLower(ch) == \E i \in 1..26 : LowerLetters[i] = ch

char_lower(ch) ==
    IF IsUpper(ch)
    THEN LowerLetters[CHOOSE i \in 1..26 : UpperLetters[i] = ch]
    ELSE ch

char_upper(ch) ==
    IF IsLower(ch)
    THEN UpperLetters[CHOOSE i \in 1..26 : LowerLetters[i] = ch]
    ELSE ch

str_lower(s) == [i \in 1..Len(s) |-> char_lower(s[i])]

str_upper(s) == [i \in 1..Len(s) |-> char_upper(s[i])]

\* str.title(): a letter is upper-cased when it follows a non-letter (or
\* starts the string) and lower-cased otherwise
str_title(s) ==
    [i \in 1..Len(s) |->
        IF i = 1 \/ ~(IsUpper(s[i-1]) \/ IsLower(s[i-1]))
        THEN char_upper(s[i])
        ELSE char_lower(s[i])]

RECURSIVE str_lstrip(_)
str_lstrip(s) ==
    IF s # <<>> /\ Head(s) \in Whitespace THEN str_lstrip(Tail(s)) ELSE s

RECURSIVE str_rstrip(_)
str_rstrip(s) ==
    IF s # <<>> /\ s[Len(s)] \in Whitespace
    THEN str_rstrip(SubSeq(s, 1, Len(s) - 1))
    ELSE s

str_strip(s) == str_rstrip(str_lstrip(s))

\* x < y in Python's string order (code points, then length)
RECURSIVE str_less(_, _)
str_less(x, y) ==
    IF y = <<>> THEN FALSE
    ELSE IF x = <<>> THEN TRUE
    ELSE IF Head(x) # Head(y) THEN Ord(Head(x)) < Ord(Head(y))
    ELSE str_less(Tail(x), Tail(y))

\* the value of F at v, with v evaluated once
Bind(v, F(_)) == CHOOSE r \in {F(x) : x \in {v}} : TRUE

Count(s, ch) == Cardinality({i \in 1..Len(s) : s[i] = ch})

Min(x, y) == IF x <= y THEN x ELSE y

\* a value handed to a normaliser: missing (NaN), text, or a float.  A float
\* is an exact decimal [neg, int, frac]: sign, integer digits without leading
\* zeros, fraction digits without trailing zeros
NaN == [kind |-> "nan"]

Text(s) == [kind |-> "str", str |-> s]

Float(v) == [kind |-> "float", val |-> v]

pd_isna(x) == x.kind = "nan"


----------------------------------------------------------------------------
(* Floats as text: str(a) and float(s), for the values clean_amount sees.  *)

Digits == {"0","1","2","3","4","5","6","7","8","9"}

DigitVal(ch) == Ord(ch) - Ord("0")

DigitChar(n) == CodeOrder[Ord("0") + n]

\* the decimal digits of a natural number
RECURSIVE nat_str(_)
nat_str(n) ==
    IF n < 10 THEN <<DigitChar(n)>>
    ELSE Append(nat_str(n \div 10), DigitChar(n % 10))

RECURSIVE strip_leading_zeros(_)
strip_leading_zeros(d) ==
    IF Len(d) > 1 /\ Head(d) = "0" THEN strip_leading_zeros(Tail(d)) ELSE d

RECURSIVE strip_trailing_zeros(_)
strip_trailing_zeros(d) ==
    IF d # <<>> /\ d[Len(d)] = "0"
    THEN strip_trailing_zeros(SubSeq(d, 1, Len(d) - 1))
    ELSE d

\* the float's first power of ten written with an exponent (repr switches to
\* exponent notation from 1e16 on)
ReprExpFrom == 16

\* repr(float): positional below 1e16, otherwise d[.ddd]e+XX with the
\* shortest digits.  (Values under 1e-4 also take an exponent; a value
\* rounded to 2 decimals is never in that range.)
float_repr(v) ==
    LET sign == IF v.neg THEN <<"-">> ELSE <<>>
    IN IF Len(v.int) > ReprExpFrom
       THEN LET sig  == strip_trailing_zeros(v.int \o v.frac)
                mant == IF Len(sig) > 1
                        THEN <<Head(sig), ".">> \o Tail(sig)
                        ELSE sig
            IN sign \o mant \o <<"e", "+">> \o nat_str(Len(v.int) - 1)
       ELSE sign \o v.int \o <<".">> \o (IF v.frac = <<>> THEN <<"0">> ELSE v.frac)

\* str(a)
py_str(a) ==
    IF a.kind = "str" THEN a.str
    ELSE IF a.kind = "float" THEN float_repr(a.val)
    ELSE <<"n", "a", "n">>

\* digits + 1
RECURSIVE digits_incr(_)
digits_incr(d) ==
    IF d = <<>> THEN <<"1">>
    ELSE IF d[Len(d)] = "9"
         THEN Append(digits_incr(SubSeq(d, 1, Len(d) - 1)), "0")
         ELSE Append(SubSeq(d, 1, Len(d) - 1), DigitChar(DigitVal(d[Len(d)]) + 1))

\* float(s) accepts, of the strings of digits, '.' and '-': an optional
\* leading '-', then digits with at most one '.', and at least one digit
float_ok(s) ==
    LET body == IF s # <<>> /\ Head(s) = "-" THEN Tail(s) ELSE s
        dots == {i \in 1..Len(body) : body[i] = "."}
    IN /\ Cardinality(dots) <= 1
       /\ \A i \in 1..Len(body) : body[i] \in Digits \cup {"."}
       /\ \E i \in 1..Len(body) : body[i] \in Digits

\* round(float(s), 2) for a string float accepts: the decimal rounded to 2
\* places.  A third decimal that is an exact half is rounded to even; the
\* float nearest such a decimal may round either way, so the bounded inputs
\* contain no such string.
round_float(s) ==
    LET neg   == s # <<>> /\ Head(s) = "-"
        body  == IF neg THEN Tail(s) ELSE s
        dot   == IF \E i \in 1..Len(body) : body[i] = "."
                 THEN CHOOSE i \in 1..Len(body) : body[i] = "."
                 ELSE Len(body) + 1
        ip    == SubSeq(body, 1, dot - 1)
        fp    == SubSeq(body, dot + 1, Len(body))
        keep  == SubSeq(fp \o <<"0", "0">>, 1, 2)
        rest  == strip_trailing_zeros(SubSeq(fp, 3, Len(fp)))
        up    == /\ rest # <<>>
                 /\ \/ DigitVal(rest[1]) > 5
                    \/ DigitVal(rest[1]) = 5 /\ Len(rest) > 1
                    \/ DigitVal(rest[1]) = 5 /\ Len(rest) = 1
                         /\ DigitVal(keep[2]) % 2 = 1
        all   == IF up THEN digits_incr(ip \o keep) ELSE ip \o keep
        whole == IF Len(all) > 2 THEN SubSeq(all, 1, Len(all) - 2) ELSE <<"0">>
    IN [neg  |-> neg,
        int  |-> strip_leading_zeros(whole),
        frac |-> strip_trailing_zeros(SubSeq(all, Len(all) - 1, Len(all)))]

----------------------------------------------------------------------------
(* clean_amount                                                            *)

\* re.sub(r'[^\d\.\-]', '', s)
RECURSIVE keep_amount_chars(_)
keep_amount_chars(s) ==
    IF s = <<>> THEN <<>>
    ELSE IF Head(s) \in Digits \cup {".", "-"}
         THEN <<Head(s)>> \o keep_amount_chars(Tail(s))
         ELSE keep_amount_chars(Tail(s))

\* re.sub(r'\.{2,}', '.', s)
RECURSIVE collapse_dots(_)
collapse_dots(s) ==
    IF Len(s) < 2 THEN s
    ELSE IF s[1] = "." /\ s[2] = "." THEN collapse_dots(Tail(s))
         ELSE <<Head(s)>> \o collapse_dots(Tail(s))

\* s.replace('-', '')
RECURSIVE drop_minus(_)
drop_minus(s) ==
    IF s = <<>> THEN <<>>
    ELSE IF Head(s) = "-" THEN drop_minus(Tail(s))
         ELSE <<Head(s)>> \o drop_minus(Tail(s))

clean_amount(a) ==
    IF pd_isna(a) \/ str_strip(py_str(a)) = <<>>
    THEN NaN
    ELSE LET s1 == keep_amount_chars(py_str(a))
             s2 == collapse_dots(s1)
             s3 == IF Count(s2, "-") > 1 THEN <<"-">> \o drop_minus(s2) ELSE s2
         IN IF float_ok(s3) THEN Float(round_float(s3)) ELSE NaN

----------------------------------------------------------------------------
(* The category tables.                                                    *)

VALID_CATEGORIES ==
    << <<"G", "r", "o", "c", "e", "r", "i", "e", "s">>,
       <<"U", "t", "i", "l", "i", "t", "i", "e", "s">>,
       <<"E", "n", "t", "e", "r", "t", "a", "i", "n", "m", "e", "n", "t">>,
       <<"S", "a", "l", "a", "r", "y">>,
       <<"R", "e", "n", "t">>,
       <<"T", "r", "a", "n", "s", "p", "o", "r", "t", "a", "t", "i", "o", "n">>,
       <<"D", "i", "n", "i", "n", "g", " ", "O", "u", "t">>,
       <<"M", "i", "s", "c", "e", "l", "l", "a", "n", "e", "o", "u", "s">>,
       <<"U", "n", "s", "p", "e", "c", "i", "f", "i", "e", "d">> >>

SYNONYM_MAP ==
    <<
       [cat |-> <<"G", "r", "o", "c", "e", "r", "i", "e", "s">>,
        syns |-> << <<"f", "o", "o", "d">>,
                   <<"g", "r", "o", "c", "e", "r", "y">>,
                   <<"g", "r", "o", "c", "e", "r">>,
                   <<"s", "u", "p", "e", "r", "m", "a", "r", "k", "e", "t">>,
                   <<"g", "r", "o", "c", "3", "r", "y">>,
                   <<"g", "r", "o", "c", "3", "r", "y", " ", "s", "h", "o", "p", "p", "i", "n", "g">> >>],
       [cat |-> <<"U", "t", "i", "l", "i", "t", "i", "e", "s">>,
        syns |-> << <<"u", "t", "i", "l", "i", "t", "y">>,
                   <<"u", "t", "i", "l", "i", "t", "i", "e", "s">>,
                   <<"e", "l", "e", "c", "t", "r", "i", "c">>,
                   <<"e", "l", "3", "c", "t", "r", "i", "c">>,
                   <<"w", "a", "t", "e", "r">>,
                   <<"g", "a", "s", " ", "b", "i", "l", "l">> >>],
       [cat |-> <<"E", "n", "t", "e", "r", "t", "a", "i", "n", "m", "e", "n", "t">>,
        syns |-> << <<"m", "o", "v", "i", "e">>,
                   <<"m", "o", "v", "i", "e", "t", "i", "c", "k", "e", "t", "s">>,
                   <<"m", "o", "v", "i", "e", "t", "i", "c", "k", "e", "t">>,
                   <<"m", "o", "v", "i", "3">>,
                   <<"c", "o", "n", "c", "e", "r", "t">>,
                   <<"s", "t", "r", "e", "a", "m", "i", "n", "g">>,
                   <<"d", "i", "n", "i", "n", "g", " ", "o", "u", "t">> >>],
       [cat |-> <<"S", "a", "l", "a", "r", "y">>,
        syns |-> << <<"s", "a", "l", "a", "r", "y">>,
                   <<"s", "a", "l", "a", "r", "a", "y">>,
                   <<"s", "@", "l", "@", "r", "y">>,
                   <<"p", "a", "y", "r", "o", "l", "l">>,
                   <<"p", "a", "y", "c", "h", "e", "c", "k">>,
                   <<"d", "e", "p", "o", "s", "i", "t">> >>],
       [cat |-> <<"R", "e", "n", "t">>,
        syns |-> << <<"r", "e", "n", "t">>,
                   <<"r", "3", "n", "t">>,
                   <<"l", "a", "n", "d", "l", "o", "r", "d">>,
                   <<"l", "e", "a", "s", "e">> >>],
       [cat |-> <<"T", "r", "a", "n", "s", "p", "o", "r", "t", "a", "t", "i", "o", "n">>,
        syns |-> << <<"g", "a", "s">>,
                   <<"g", "@", "s">>,
                   <<"g", "a", "s", " ", "s", "t", "a", "t", "i", "o", "n">>,
                   <<"t", "r", "a", "n", "s", "p", "o", "r", "t", "a", "t", "i", "o", "n">> >>],
       [cat |-> <<"D", "i", "n", "i", "n", "g", " ", "O", "u", "t">>,
        syns |-> << <<"d", "i", "n", "n", "e", "r">>,
                   <<"r", "e", "s", "t", "a", "u", "r", "a", "n", "t">>,
                   <<"d", "i", "n", "n", "3", "r">> >>],
       [cat |-> <<"M", "i", "s", "c", "e", "l", "l", "a", "n", "e", "o", "u", "s">>,
        syns |-> << <<"m", "i", "s", "c">>,
                   <<"m", "i", "s", "c", "e", "l", "l", "a", "n", "e", "o", "u", "s">>,
                   <<"u", "n", "s", "p", "e", "c", "i", "f", "i", "e", "d">> >>]
    >>

RECURSIVE SynPairsUpTo(_)
SynPairsUpTo(n) ==
    IF n = 0 THEN <<>>
    ELSE SynPairsUpTo(n - 1) \o
         [i \in 1..Len(SYNONYM_MAP[n].syns) |->
             [key |-> str_lower(SYNONYM_MAP[n].syns[i]),
              cat |-> SYNONYM_MAP[n].cat]]

\* the (key, value) pairs in the order the comprehension produces them
SynPairs == SynPairsUpTo(Len(SYNONYM_MAP))

\* SYN_TO_CAT as a dict: a later pair with the same key overwrites the value
SYN_TO_CAT ==
    [k \in {SynPairs[i].key : i \in 1..Len(SynPairs)} |->
        SynPairs[CHOOSE i \in 1..Len(SynPairs) :
                    /\ SynPairs[i].key = k
                    /\ \A j \in (i+1)..Len(SynPairs) : SynPairs[j].key # k].cat]

\* list(SYN_TO_CAT.keys()): keys in order of first insertion
SYN_TO_CAT_keys ==
    LET first == {i \in 1..Len(SynPairs) :
                    \A j \in 1..(i-1) : SynPairs[j].key # SynPairs[i].key}
        RECURSIVE Build(_)
        Build(n) == IF n = 0 THEN <<>>
                    ELSE IF n \in first THEN Append(Build(n-1), SynPairs[n].key)
                    ELSE Build(n-1)
    IN Build(Len(SynPairs))

----------------------------------------------------------------------------
(* difflib.SequenceMatcher (no junk, autojunk inactive below 200 chars)    *)
(* and difflib.get_close_matches, as called by clean_category.             *)

CutoffNum == 8

CutoffDen == 10

\* length of the common run of a from i and b from j, inside [i,ahi) x [j,bhi)
RECURSIVE RunLen(_, _, _, _, _, _)
RunLen(a, b, i, j, ahi, bhi) ==
    IF i >= ahi \/ j >= bhi \/ a[i] # b[j] THEN 0
    ELSE 1 + RunLen(a, b, i + 1, j + 1, ahi, bhi)

\* find_longest_match: the longest block, earliest in a, then earliest in b
find_longest_match(a, b, alo, ahi, blo, bhi) ==
    Bind({<<i, j, RunLen(a, b, i, j, ahi, bhi)>> :
             i \in alo..(ahi-1), j \in blo..(bhi-1)},
         LAMBDA blocks :
            Bind(CHOOSE t \in blocks :
                    \A u \in blocks :
                       \/ t[3] > u[3]
                       \/ t[3] = u[3] /\ t[1] < u[1]
                       \/ t[3] = u[3] /\ t[1] = u[1] /\ t[2] <= u[2],
                 LAMBDA best :
                    IF best[3] = 0 THEN <<alo, blo, 0>> ELSE best))

\* get_matching_blocks: total size of the blocks found recursively to the
\* left and to the right of the longest match
RECURSIVE matches(_, _, _, _, _, _)
matches(a, b, alo, ahi, blo, bhi) ==
    IF alo >= ahi \/ blo >= bhi THEN 0
    ELSE Bind(find_longest_match(a, b, alo, ahi, blo, bhi),
              LAMBDA m :
                 IF m[3] = 0 THEN 0
                 ELSE m[3] + matches(a, b, alo, m[1], blo, m[2])
                           + matches(a, b, m[1] + m[3], ahi, m[2] + m[3], bhi))

\* a ratio 2.0*M/T as the pair <<2M, T>>; an empty pair of strings scores 1.0
calculate_ratio(m, length) == IF length > 0 THEN <<2 * m, length>> ELSE <<1, 1>>

ratio(a, b) ==
    calculate_ratio(matches(a, b, 1, Len(a) + 1, 1, Len(b) + 1), Len(a) + Len(b))

\* quick_ratio: size of the multiset intersection of the characters
quick_ratio(a, b) ==
    LET chars == {a[i] : i \in 1..Len(a)}
        RECURSIVE Sum(_)
        Sum(cs) == IF cs = {} THEN 0
                   ELSE LET c == CHOOSE x \in cs : TRUE
                        IN Min(Count(a, c), Count(b, c)) + Sum(cs \ {c})
    IN calculate_ratio(Sum(chars), Len(a) + Len(b))

real_quick_ratio(a, b) ==
    calculate_ratio(Min(Len(a), Len(b)), Len(a) + Len(b))

\* r >= cutoff
AtLeastCutoff(r) == r[1] * CutoffDen >= CutoffNum * r[2]

\* r1 < r2
RatioLess(r1, r2) == r1[1] * r2[2] < r2[1] * r1[2]

\* <<score, candidate>> pairs: p < q
PairLess(p, q) ==
    \/ RatioLess(p[1], q[1])
    \/ ~RatioLess(q[1], p[1]) /\ str_less(p[2], q[2])

\* get_close_matches(word, possibilities, n=1, cutoff): the candidates that
\* score at least the cutoff, and of them the largest (score, candidate)
get_close_matches(word, possibilities) ==
    Bind({i \in 1..Len(possibilities) :
             /\ AtLeastCutoff(real_quick_ratio(possibilities[i], word))
             /\ AtLeastCutoff(quick_ratio(possibilities[i], word))
             /\ AtLeastCutoff(ratio(possibilities[i], word))},
         LAMBDA ok :
            Bind({<<ratio(possibilities[i], word), possibilities[i]>> : i \in ok},
                 LAMBDA result :
                    IF result = {} THEN <<>>
                    ELSE << (CHOOSE p \in result :
                               \A q \in result : q = p \/ PairLess(q, p))[2] >>))

----------------------------------------------------------------------------
(* clean_category                                                          *)

Uncategorized == <<"U","n","c","a","t","e","g","o","r","i","z","e","d">>

\* the default label
Unspecified == <<"U","n","s","p","e","c","i","f","i","e","d">>

category_key_cased(cat) == str_strip(py_str(cat))

\* c = str(cat).strip().lower()
category_key(cat) == str_lower(str_strip(py_str(cat)))

\* the label returned and the return statement that produced it
clean_category_at(cat) ==
    IF pd_isna(cat) \/ str_strip(py_str(cat)) = <<>>
    THEN [label |-> Unspecified, ret |-> "blank"]
    ELSE Bind(category_key(cat), LAMBDA c :
         IF c \in DOMAIN SYN_TO_CAT
         THEN [label |-> SYN_TO_CAT[c], ret |-> "synonym"]
         ELSE Bind(get_close_matches(c, SYN_TO_CAT_keys), LAMBDA match :
              IF match # <<>>
              THEN [label |-> SYN_TO_CAT[match[1]], ret |-> "close_synonym"]
              ELSE Bind(get_close_matches(str_title(c), VALID_CATEGORIES),
                        LAMBDA match2 :
                   IF match2 # <<>>
                   THEN [label |-> match2[1], ret |-> "close_category"]
                   ELSE [label |-> Unspecified, ret |-> "default"])))

clean_category(cat) == clean_category_at(cat).label

----------------------------------------------------------------------------
(* Exact arithmetic on naturals beyond the range of machine integers:      *)
(* little-endian sequences of limbs, used for the sums of squares of the   *)
(* anomaly threshold.                                                      *)

Base == 100 * 100

RECURSIVE BigOfNat(_)
BigOfNat(n) == IF n = 0 THEN <<>> ELSE <<n % Base>> \o BigOfNat(n \div Base)

Limb(x, i) == IF i <= Len(x) THEN x[i] ELSE 0

RECURSIVE BigTrim(_)
BigTrim(x) ==
    IF x # <<>> /\ x[Len(x)] = 0 THEN BigTrim(SubSeq(x, 1, Len(x) - 1)) ELSE x

RECURSIVE BigAddFrom(_, _, _, _)
BigAddFrom(x, y, i, carry) ==
    IF i > Len(x) /\ i > Len(y)
    THEN (IF carry = 0 THEN <<>> ELSE <<carry>>)
    ELSE LET t == Limb(x, i) + Limb(y, i) + carry
         IN <<t % Base>> \o BigAddFrom(x, y, i + 1, t \div Base)

BigAdd(x, y) == BigAddFrom(x, y, 1, 0)

\* x - y, for x >= y
RECURSIVE BigSubFrom(_, _, _, _)
BigSubFrom(x, y, i, borrow) ==
    IF i > Len(x) THEN <<>>
    ELSE LET t == Limb(x, i) - Limb(y, i) - borrow
         IN IF t < 0
            THEN <<t + Base>> \o BigSubFrom(x, y, i + 1, 1)
            ELSE <<t>> \o BigSubFrom(x, y, i + 1, 0)

BigSub(x, y) == BigTrim(BigSubFrom(x, y, 1, 0))

\* x times one limb
RECURSIVE BigScaleFrom(_, _, _, _)
BigScaleFrom(x, k, i, carry) ==
    IF i > Len(x) THEN BigOfNat(carry)
    ELSE LET t == x[i] * k + carry
         IN <<t % Base>> \o BigScaleFrom(x, k, i + 1, t \div Base)

RECURSIVE BigMul(_, _)
BigMul(x, y) ==
    IF y = <<>> THEN <<>>
    ELSE BigTrim(BigAdd(BigScaleFrom(x, Head(y), 1, 0),
                        <<0>> \o BigMul(x, Tail(y))))

RECURSIVE BigLess(_, _)
BigLess(x, y) ==
    IF Len(x) # Len(y) THEN Len(x) < Len(y)
    ELSE IF x = <<>> THEN FALSE
    ELSE IF x[Len(x)] # y[Len(y)] THEN x[Len(x)] < y[Len(y)]
    ELSE BigLess(SubSeq(x, 1, Len(x) - 1), SubSeq(y, 1, Len(y) - 1))

----------------------------------------------------------------------------
(* The data frame of load_and_clean: the columns Date, Amount, Balance,    *)
(* Anomaly, each a sequence over the rows.  An amount is NaN or an exact   *)
(* number of hundredths.                                                   *)

NaT == [kind |-> "nat"]

Day(y, m, d) == [kind |-> "date", y |-> y, m |-> m, d |-> d]

Cents(n) == [kind |-> "float", cents |-> n]

notna(col) == {i \in 1..Len(col) : ~pd_isna(col[i])}

Abs(n) == IF n < 0 THEN -n ELSE n

date_isna(d) == d.kind = "nat"

date_less(d, e) ==
    \/ d.y < e.y
    \/ d.y = e.y /\ d.m < e.m
    \/ d.y = e.y /\ d.m = e.m /\ d.d < e.d

\* sort_values(by='Date'): the row orders it can produce.  NaT rows come
\* last in their original order; the default sort is not stable, so rows of
\* equal date may come out in any order.
RECURSIVE sort_orders(_, _)
sort_orders(dates, rest) ==
    IF rest = {} THEN {<<>>}
    ELSE LET dated == {i \in rest : ~date_isna(dates[i])}
             first == IF dated # {}
                      THEN {i \in dated :
                              \A j \in dated : ~date_less(dates[j], dates[i])}
                      ELSE {CHOOSE i \in rest : \A j \in rest : i <= j}
         IN UNION { {<<i>> \o o : o \in sort_orders(dates, rest \ {i})} :
                    i \in first }

take(col, order) == [k \in 1..Len(order) |-> col[order[k]]]

\* num/den (den > 0) rounded to the nearest integer, an exact half to even
round_half_even(num, den) ==
    LET q == num \div den
        r == num - q * den
    IN IF 2 * r < den THEN q
       ELSE IF 2 * r > den THEN q + 1
       ELSE IF q % 2 = 0 THEN q ELSE q + 1

\* limit_direction='both': rows before the first present value filled too
interpolate_both(col) ==
    [i \in 1..Len(col) |->
        IF ~pd_isna(col[i]) THEN col[i]
        ELSE LET before == {j \in notna(col) : j < i}
                 after  == {j \in notna(col) : j > i}
             IN IF before = {}
                THEN col[CHOOSE j \in after : \A k \in after : j <= k]
                ELSE LET l == CHOOSE j \in before : \A k \in before : k <= j
                     IN IF after = {} THEN col[l]
                        ELSE LET r == CHOOSE j \in after : \A k \in after : j <= k
                                 a == col[l].cents
                                 b == col[r].cents
                             IN Cents(round_half_even(
                                    a * (r - l) + (b - a) * (i - l), r - l))]

\* Series.interpolate(method='linear').round(2): a NaN between two present
\* values gets the value on the line through its nearest present neighbours
\* (by row position); a NaN after the last present value gets that value; a
\* NaN before the first present value stays NaN.
interpolate(col) ==
    [i \in 1..Len(col) |->
        IF ~pd_isna(col[i]) THEN col[i]
        ELSE LET before == {j \in notna(col) : j < i}
                 after  == {j \in notna(col) : j > i}
             IN IF before = {} THEN NaN
                ELSE LET l == CHOOSE j \in before : \A k \in before : k <= j
                     IN IF after = {} THEN col[l]
                        ELSE LET r == CHOOSE j \in after : \A k \in after : j <= k
                                 a == col[l].cents
                                 b == col[r].cents
                             IN Cents(round_half_even(
                                    a * (r - l) + (b - a) * (i - l), r - l))]

fillna0(x) == IF pd_isna(x) THEN 0 ELSE x.cents

cumsum_forgotten(col) == [i \in 1..Len(col) |-> fillna0(col[i])]

\* fillna(0).cumsum().round(2)
RECURSIVE cumsum(_)
cumsum(col) ==
    IF col = <<>> THEN <<>>
    ELSE LET init == cumsum(SubSeq(col, 1, Len(col) - 1))
             last == IF init = <<>> THEN 0 ELSE init[Len(init)]
         IN Append(init, last + fillna0(col[Len(col)]))

RECURSIVE SumOver(_, _)
SumOver(f, s) ==
    IF s = {} THEN 0
    ELSE LET i == CHOOSE x \in s : TRUE IN f[i] + SumOver(f, s \ {i})

RECURSIVE BigSumOver(_, _)
BigSumOver(f, s) ==
    IF s = {} THEN <<>>
    ELSE LET i == CHOOSE x \in s : TRUE IN BigAdd(f[i], BigSumOver(f, s \ {i}))

ThresholdStds == 3

\* count n, sum s and n*Q - s*s (Q the sum of squares) of the present
\* |amounts|: mean = s/n and the population std = sqrt(n*Q - s*s)/n
abs_stats(col) ==
    Bind(notna(col), LAMBDA present :
       Bind(SumOver([i \in present |-> Abs(col[i].cents)], present), LAMBDA s :
          [n |-> Cardinality(present),
           s |-> s,
           v |-> BigSub(
                   BigMul(BigOfNat(Cardinality(present)),
                          BigSumOver([i \in present |->
                                        BigMul(BigOfNat(Abs(col[i].cents)),
                                               BigOfNat(Abs(col[i].cents)))],
                                     present)),
                   BigMul(BigOfNat(s), BigOfNat(s)))]))

\* x against mean + k*std:  n*x - s  against  k*sqrt(v), compared as squares
above(x, st, k, strict) ==
    Bind(st.n * x - st.s, LAMBDA d :
       /\ d > 0
       /\ Bind(BigMul(BigOfNat(d), BigOfNat(d)), LAMBDA lhs :
          Bind(BigMul(BigOfNat(k * k), st.v), LAMBDA rhs :
             IF strict THEN BigLess(rhs, lhs) ELSE ~BigLess(lhs, rhs))))

exceeds_one_std(x, st) == above(x, st, 1, TRUE)

exceeds_or_equal(x, st) == above(x, st, ThresholdStds, FALSE)

\* x > threshold, threshold = mean_abs + 3 * std_abs
exceeds(x, st) == above(x, st, ThresholdStds, TRUE)

\* the Anomaly column; all False when no amount is present
anomaly_flags(col) ==
    Bind(abs_stats(col), LAMBDA st :
       [i \in 1..Len(col) |->
          IF pd_isna(col[i]) THEN FALSE ELSE exceeds(Abs(col[i].cents), st)])

\* monthly_summary: one row per month of the rows with a date, in month
\* order; 'count' counts the non-NaN amounts of the group
Month(d) == <<d.y, d.m>>

month_less(a, b) == a[1] < b[1] \/ (a[1] = b[1] /\ a[2] < b[2])

RECURSIVE months_sorted(_)
months_sorted(ms) ==
    IF ms = {} THEN <<>>
    ELSE LET m == CHOOSE x \in ms : \A y \in ms : ~month_less(y, x)
         IN <<m>> \o months_sorted(ms \ {m})

monthly_summary(frame) ==
    LET df2    == {i \in 1..Len(frame.Date) : ~date_isna(frame.Date[i])}
        months == months_sorted({Month(frame.Date[i]) : i \in df2})
        group(m) == {i \in df2 : Month(frame.Date[i]) = m}
        amt(m)   == {i \in group(m) : ~pd_isna(frame.Amount[i])}
        val      == [i \in notna(frame.Amount) |-> frame.Amount[i].cents]
    IN [k \in 1..Len(months) |->
          [Month         |-> months[k],
           transactions  |-> Cardinality(amt(months[k])),
           total_income  |-> SumOver(val, {i \in amt(months[k]) : val[i] > 0}),
           total_expense |-> SumOver(val, {i \in amt(months[k]) : val[i] < 0}),
           net           |-> SumOver(val, amt(months[k]))]]

----------------------------------------------------------------------------
(* Bounds and the inputs drawn within them.                                *)

MaxPad == 1

MaxAmountLen == 4

MaxZeros == 17

MaxRows == 3

MaxLongRows == 11

Spaces(n) == [i \in 1..n |-> " "]

Zeros(n) == [i \in 1..n |-> "0"]

\* a word with the letters at every other position upper-cased
str_mixed(s) == [i \in 1..Len(s) |-> IF i % 2 = 1 THEN char_upper(s[i]) ELSE s[i]]

CaseVariants(s) == {s, str_lower(s), str_upper(s), str_title(s), str_mixed(s)}

Padded(s) == {Spaces(l) \o s \o Spaces(r) : l \in 0..MaxPad, r \in 0..MaxPad}

Synonyms == {SynPairs[i].key : i \in 1..Len(SynPairs)}

Labels == {VALID_CATEGORIES[i] : i \in 1..Len(VALID_CATEGORIES)}

\* misspellings and unrelated words
OtherWords ==
    { <<"g","r","o","c","e","r","y","s">>,
      <<"s","a","l","r","y">>,
      <<"r","e","n","t","t">>,
      <<"g","a","s"," ","b","i","l">>,
      <<"d","i","n","n","e","r"," ","o","u","t">>,
      <<"d","i","n","n","3","r","s">>,
      <<"m","o","v","i","t","i","c","k","e","t">>,
      <<"E","n","t","e","r","t","a","i","n","m","n","t">>,
      <<"e","n","t","e","r","t","a","i","n">>,
      <<"U","n","s","p","e","c","i","f","e","d">>,
      <<"t","r","a","n","s","p","o","r","t">>,
      <<"d","i","n","i","n","g">>,
      <<"b","i","l","l","s">>,
      <<"x","y","z">>,
      <<"3">>,
      <<"@","@">> }

CategoryInputs ==
    {NaN}
    \cup {Text(Spaces(n)) : n \in 0..(MaxPad + 1)}
    \cup {Text(t) : t \in UNION {Padded(v) :
                v \in UNION {CaseVariants(w) :
                               w \in Synonyms \cup Labels \cup OtherWords}}}

AmountChars == {"0", "1", "9", ".", "-", "$"}

ShortTexts == UNION {[1..n -> AmountChars] : n \in 0..MaxAmountLen}

\* powers of ten, which a float holds exactly
BigTexts ==
    {pre \o <<"1">> \o Zeros(z) \o post :
        pre \in {<<>>, <<"-">>, <<"$">>},
        z \in 1..MaxZeros,
        post \in {<<>>, <<".", "0", "0">>}}

AmountInputs ==
    {NaN, Text(<<" ">>)} \cup {Text(t) : t \in ShortTexts \cup BigTexts}

DateVals == {NaT, Day(2024, 1, 5), Day(2024, 2, 10)}

AmountVals == {NaN, Cents(-500), Cents(2000)}

LongAmountVals == {Cents(-300), Cents(0), Cents(100), Cents(1000)}

Frame(dates, amounts) ==
    [Date |-> dates, Amount |-> amounts, Balance |-> <<>>, Anomaly |-> <<>>]

\* rows dated on consecutive days, in date order
DatedFrame(amounts) ==
    Frame([i \in 1..Len(amounts) |-> Day(2024, 3, i)], amounts)

SmallFrames ==
    UNION {{Frame(d, a) : d \in [1..n -> DateVals], a \in [1..n -> AmountVals]} :
           n \in 0..MaxRows}

\* the nondecreasing sequences of n long-table amounts: one sequence for
\* every multiset (the flags do not depend on the order of the rows)
RECURSIVE NonDecreasing(_)
NonDecreasing(n) ==
    IF n = 0 THEN {<<>>}
    ELSE {Append(s, v) : <<s, v>> \in
             {p \in NonDecreasing(n - 1) \X LongAmountVals :
                 p[1] = <<>> \/ p[1][Len(p[1])].cents <= p[2].cents}}

\* long tables, all amounts present or only the first one absent
LongFrames ==
    UNION {{DatedFrame(a) : a \in NonDecreasing(n)}
           \cup {DatedFrame(<<NaN>> \o a) : a \in NonDecreasing(n - 1)} :
           n \in (MaxRows + 1)..MaxLongRows}

\* the tables of the specification's examples, and one with a gap of two
\* rows and a trailing gap
BalanceExample ==
    DatedFrame(<<Cents(1000), Cents(-500), NaN, Cents(2000)>>)

AnomalyExample ==
    DatedFrame(<<Cents(1000), Cents(1200), Cents(1100), Cents(900), Cents(100000)>>)

GapExample ==
    DatedFrame(<<NaN, Cents(2000), NaN, NaN, Cents(-500), NaN>>)

Frames == SmallFrames \cup LongFrames \cup {BalanceExample, AnomalyExample, GapExample}

EmptyFrame == Frame(<<>>, <<>>)

----------------------------------------------------------------------------
(* clean_category as a run: the argument, then the returned label.         *)

CategoryIdle == cat_in = NaN /\ cat_out = <<>> /\ cat_ret = "idle"

AmountIdle == amt_in = NaN /\ amt_out = NaN /\ amt_again = NaN /\ amt_pc = "idle"

FrameIdle == pc = "idle" /\ df = EmptyFrame /\ summary = <<>>

InitCategory ==
    /\ cat_in \in CategoryInputs
    /\ cat_out = <<>>
    /\ cat_ret = "pending"
    /\ AmountIdle
    /\ FrameIdle

CleanCategory ==
    /\ cat_ret = "pending"
    /\ \E r \in {clean_category_at(cat_in)} :
          /\ cat_out' = r.label
          /\ cat_ret' = r.ret
    /\ UNCHANGED <<cat_in, amt_in, amt_out, amt_again, amt_pc, pc, df, summary>>

NextCategory == CleanCategory

SpecCategory == InitCategory /\ [][NextCategory]_vars

----------------------------------------------------------------------------
(* clean_amount as a run: a raw amount is cleaned, and the cleaned value   *)
(* is cleaned once more.                                                   *)

InitAmount ==
    /\ amt_in \in AmountInputs
    /\ amt_out = NaN
    /\ amt_again = NaN
    /\ amt_pc = "raw"
    /\ CategoryIdle
    /\ FrameIdle

CleanAmount ==
    /\ amt_pc = "raw"
    /\ amt_out' = clean_amount(amt_in)
    /\ amt_pc' = "cleaned"
    /\ UNCHANGED <<amt_in, amt_again, cat_in, cat_out, cat_ret, pc, df, summary>>

CleanAmountAgain ==
    /\ amt_pc = "cleaned"
    /\ amt_again' = clean_amount(amt_out)
    /\ amt_pc' = "again"
    /\ UNCHANGED <<amt_in, amt_out, cat_in, cat_out, cat_ret, pc, df, summary>>

NextAmount == CleanAmount \/ CleanAmountAgain

SpecAmount == InitAmount /\ [][NextAmount]_vars

----------------------------------------------------------------------------
(* load_and_clean from the sort on, statement by statement, and then       *)
(* monthly_summary.  Init is the frame after the column cleaners.          *)

Init ==
    /\ pc = "sort"
    /\ df \in Frames
    /\ summary = <<>>
    /\ CategoryIdle
    /\ AmountIdle

others == <<cat_in, cat_out, cat_ret, amt_in, amt_out, amt_again, amt_pc>>

\* df.sort_values(by='Date').reset_index(drop=True)
SortByDate ==
    /\ pc = "sort"
    /\ \E order \in sort_orders(df.Date, 1..Len(df.Date)) :
          df' = [df EXCEPT !.Date = take(df.Date, order),
                           !.Amount = take(df.Amount, order)]
    /\ pc' = "interpolate"
    /\ UNCHANGED <<summary, others>>

interpolated_from_one(col) ==
    IF Cardinality(notna(col)) >= 1 THEN interpolate(col) ELSE col

\* if df['Amount'].notna().sum() >= 2: interpolate and round
interpolated(col) ==
    IF Cardinality(notna(col)) >= 2 THEN interpolate(col) ELSE col

Interpolate ==
    /\ pc = "interpolate"
    /\ df' = [df EXCEPT !.Amount = interpolated(df.Amount)]
    /\ pc' = "balance"
    /\ UNCHANGED <<summary, others>>

RunningBalance ==
    /\ pc = "balance"
    /\ df' = [df EXCEPT !.Balance = cumsum(df.Amount)]
    /\ pc' = "anomaly"
    /\ UNCHANGED <<summary, others>>

FlagAnomalies ==
    /\ pc = "anomaly"
    /\ df' = [df EXCEPT !.Anomaly = anomaly_flags(df.Amount)]
    /\ pc' = "summary"
    /\ UNCHANGED <<summary, others>>

MonthlySummary ==
    /\ pc = "summary"
    /\ summary' = monthly_summary(df)
    /\ pc' = "done"
    /\ UNCHANGED <<df, others>>

Next ==
    \/ SortByDate
    \/ Interpolate
    \/ RunningBalance
    \/ FlagAnomalies
    \/ MonthlySummary

Spec == Init /\ [][Next]_vars

----------------------------------------------------------------------------
(* Properties of clean_category, under SpecCategory.                       *)

Resolved == cat_ret # "pending"

\* C1: every canonical label is returned unchanged.
C1_CanonicalUnchanged ==
    (Resolved /\ cat_in.kind = "str" /\ cat_in.str \in Labels)
        => cat_out = cat_in.str

\* the input neither equals a synonym nor is close to a synonym or a label
MatchesNothing(cat) ==
    /\ cat.kind = "str"
    /\ str_strip(cat.str) # <<>>
    /\ str_lower(str_strip(cat.str)) \notin Synonyms
    /\ get_close_matches(str_lower(str_strip(cat.str)), SYN_TO_CAT_keys) = <<>>
    /\ get_close_matches(str_title(str_lower(str_strip(cat.str))),
                         VALID_CATEGORIES) = <<>>

IsVariant(v, s) ==
    \E l \in 0..Len(v) :
        /\ l + Len(s) <= Len(v)
        /\ \A i \in 1..l : v[i] \in Whitespace
        /\ \A i \in (l + Len(s) + 1)..Len(v) : v[i] \in Whitespace
        /\ \A i \in 1..Len(s) : char_lower(v[l + i]) = char_lower(s[i])

\* C8: a synonym listed under category C, in any letter case and with any
\* surrounding whitespace, resolves to C, by the exact lookup.
C8_SynonymResolves ==
    (Resolved /\ cat_in.kind = "str") =>
        \A n \in 1..Len(SYNONYM_MAP) :
            \A k \in 1..Len(SYNONYM_MAP[n].syns) :
                IsVariant(cat_in.str, SYNONYM_MAP[n].syns[k]) =>
                    /\ cat_out = SYNONYM_MAP[n].cat
                    /\ cat_ret = "synonym"

C8_Witness ==
    /\ Resolved
    /\ cat_in = Text(<<" ", "G", "R", "O", "C", "E", "R", "Y", " ">>)
    /\ cat_out = <<"G", "r", "o", "c", "e", "r", "i", "e", "s">>
    /\ cat_ret = "synonym"

----------------------------------------------------------------------------
(* Properties of clean_amount, under SpecAmount.                           *)

\* C9: cleaning a cleaned amount returns it again.
C9_Idempotent == amt_pc = "again" => amt_again = amt_out

----------------------------------------------------------------------------
(* Properties of load_and_clean and monthly_summary, under Spec.           *)

Rows == 1..Len(df.Amount)

Flagged == pc \in {"summary", "done"}

Balanced == pc \in {"anomaly", "summary", "done"}

NoFlags == \A i \in 1..Len(df.Anomaly) : ~df.Anomaly[i]

\* C2 as stated: of the amounts 10, 12, 11, 9, 1000 exactly the 1000 is
\* flagged.
C2_FlagsThousand ==
    (Flagged /\ df.Amount = AnomalyExample.Amount)
        => df.Anomaly = <<FALSE, FALSE, FALSE, FALSE, TRUE>>

\* C2 amended: of the amounts 10, 12, 11, 9, 1000 none is flagged.
C2_FlagsNone ==
    (Flagged /\ df.Amount = AnomalyExample.Amount)
        => (Len(df.Anomaly) = 5 /\ NoFlags)

C2_Witness ==
    /\ Flagged
    /\ df.Amount = AnomalyExample.Amount
    /\ df.Anomaly = <<FALSE, FALSE, FALSE, FALSE, FALSE>>

Dated == {i \in 1..Len(df.Date) : ~date_isna(df.Date[i])}

\* C3: the transactions counts of the monthly summary add up to the number
\* of rows with a date, rows without an amount included.
C3_CountsEveryDatedRow ==
    pc = "done" =>
        SumOver([k \in 1..Len(summary) |-> summary[k].transactions],
                1..Len(summary)) = Cardinality(Dated)

OnLine(x, col, l, r, i) ==
    2 * Abs(x * (r - l)
            - (col[l].cents * (r - l) + (col[r].cents - col[l].cents) * (i - l)))
        <= r - l

C5_NothingFabricated ==
    [][(pc = "interpolate" /\ Cardinality(notna(df.Amount)) < 2)
          => df'.Amount = df.Amount]_vars

C5_Witness ==
    /\ pc = "balance"
    /\ Cardinality(notna(df.Amount)) = 1
    /\ \E i \in Rows, j \in Rows : i < j /\ ~pd_isna(df.Amount[i]) /\ pd_isna(df.Amount[j])

\* C6: each balance is the sum of the amounts up to its row, an absent
\* amount counting 0; the amounts 10, -5, absent, 20 become 10, -5, 7.5, 20
\* with balances 10, 5, 12.5, 32.5; computing the balance changes no amount.
C6_RunningBalance ==
    /\ [](Balanced =>
            /\ Len(df.Balance) = Len(df.Amount)
            /\ \A i \in Rows :
                  df.Balance[i] =
                     SumOver([j \in 1..i |-> fillna0(df.Amount[j])], 1..i))
    /\ [][/\ (pc = "interpolate" /\ df.Amount = BalanceExample.Amount)
             => df'.Amount = <<Cents(1000), Cents(-500), Cents(750), Cents(2000)>>
          /\ (pc = "balance"
                /\ df.Amount = <<Cents(1000), Cents(-500), Cents(750), Cents(2000)>>)
             => df'.Balance = <<1000, 500, 1250, 3250>>
          /\ pc = "balance" => df'.Amount = df.Amount]_vars

C6_Witness ==
    /\ pc = "anomaly"
    /\ df.Amount = <<Cents(1000), Cents(-500), Cents(750), Cents(2000)>>
    /\ df.Balance = <<1000, 500, 1250, 3250>>

\* C10: with at most 10 amounts present after the interpolation, no row is
\* flagged.
C10_NoFlagUpToTen ==
    (Flagged /\ Cardinality(notna(df.Amount)) <= 10) => NoFlags

C10_Witness ==
    /\ Flagged
    /\ df.Amount = [i \in 1..10 |-> IF i = 10 THEN Cents(100) ELSE Cents(0)]
    /\ NoFlags

\* a row is flagged once 11 amounts are present
C10_FlagAtEleven ==
    /\ Flagged
    /\ Cardinality(notna(df.Amount)) = 11
    /\ ~NoFlags

====
